---- MODULE Spec2Model ----
(***************************************************************************)
(* Model of the chain server (src/main.py): a MongoDB collection of chain  *)
(* documents and the HTTP handlers that read and write it.  Every handler  *)
(* talks to the collection through separate store calls (aggregate,        *)
(* find_one, update_one, insert_many, delete_many); requests are served by *)
(* several workers / service instances that share the collection, so the   *)
(* store calls of different requests interleave.  One action of the model  *)
(* is one store call of one request together with the handler code around  *)
(* it.                                                                     *)
(***************************************************************************)
EXTENDS Integers, Sequences, FiniteSets, TLC

\* ------------------------------------------------------------------ bounds
\* number of requests that can be in flight at the same time
NumProcs == 2
\* number of ObjectIds the store hands out in one behaviour
MaxChains == 2
\* cap on the writes and reads counters of a document
MaxCount == 1
\* largest n_chains_per_condition a Setup request carries
MaxPerCondition == 2
\* cap on the counters when requests are served one at a time
MaxEpisodeCount == 2

Procs == 1..NumProcs
Ids == 1..MaxChains

\* condition labels and condition keys are strings: sequences of characters
LabelA1 == <<"A", ".", "1">>
LabelB1 == <<"B", ".", "1">>
Labels == {LabelA1, LabelB1}
Keys == {<<"A">>, <<"B">>, <<"A", ".", "1">>}
\* bodies of POST /setup: the list of conditions
SetupConditions == {<<>>, <<LabelA1>>, <<LabelA1, LabelB1>>}
\* bodies of POST /chain/complete
Messages == {"m1", "m2"}

\* a wider choice of labels and keys for requests served one at a time: the
\* label "AB1" has "A" and "AB" as prefixes, but not "A.1"
LabelAB1 == <<"A", "B", "1">>
EpisodeKeys == Keys \cup {<<"A", "B">>}
EpisodeConditions ==
    {<<>>, <<LabelA1>>, <<LabelAB1>>, <<LabelA1, LabelAB1>>, <<LabelA1, LabelB1>>}

VARIABLES
    collection,  \* the MongoDB collection: _id -> document, for the stored _ids
    nextId,      \* the next ObjectId the store assigns
    pc,          \* per request slot: which store call of which handler is next
    chain,       \* per request slot: the handler's local variable `chain`
    chain_id,    \* per request slot: the handler's local variable `chain_id`
    fetched,     \* per request slot: the document as find_one / aggregate returned it
    message,     \* per request slot: body.message of a complete request
    response,    \* the last response a handler returned
    holders,     \* per _id: the requests /assign returned it to since the last
                 \* complete or free update of that _id
    episode      \* what a client that works in claim-complete episodes has
                 \* seen: the chain /assign returned last (its _id, its
                 \* messages), whether a complete request on it has succeeded
                 \* since, and the keys it asked /assign for

vars == <<collection, nextId, pc, chain, chain_id, fetched, message, response, holders,
         episode>>

locals == <<pc, chain, chain_id, fetched, message>>

\* ------------------------------------------------------------- documents
NewChain(condition) ==
    [condition |-> condition, messages |-> <<>>, busy |-> FALSE,
     writes |-> 0, reads |-> 0]

NoChain == NewChain(<<>>)

Response(op, outcome, id) == [op |-> op, outcome |-> outcome, id |-> id]

\* {"condition": {"$regex": f"^{condition}"}}: the key is a regular expression
\* anchored at the start; "." matches any character, the other characters of
\* the modelled alphabet match themselves
RegexMatch(key, condition) ==
    /\ Len(key) <= Len(condition)
    /\ \A i \in 1..Len(key) : key[i] = "." \/ key[i] = condition[i]

\* a descending sort: the most loaded group comes first
LoadLE_Descending(a, b) ==
    \/ a.writes > b.writes
    \/ a.writes = b.writes /\ a.reads >= b.reads

\* {"$sort": {"_id.writes": 1, "_id.reads": 1}}
LoadLE(a, b) ==
    \/ a.writes < b.writes
    \/ a.writes = b.writes /\ a.reads <= b.reads

\* $group by (reads, writes), $sort, $limit 1, $unwind: the documents of the
\* first group
FirstGroup(matched) ==
    {c \in matched : \A d \in matched : LoadLE(collection[c], collection[d])}

WriteMatch(condition) ==
    {c \in DOMAIN collection :
        RegexMatch(condition, collection[c].condition) /\ ~collection[c].busy}

ReadMatch(condition) ==
    {c \in DOMAIN collection :
        /\ RegexMatch(condition, collection[c].condition)
        /\ ~collection[c].busy
        /\ collection[c].writes > 0}

\* the documents the pipeline can return ($sample of size 1 of the first group)
sample_chain_to_write(condition) == FirstGroup(WriteMatch(condition))

sample_chain_to_read(condition) == FirstGroup(ReadMatch(condition))

\* collection.update_one({"_id": id}, {"$set": fields}): no upsert
update_one(id, fields) ==
    IF id \in DOMAIN collection
    THEN [collection EXCEPT ![id] = fields]
    ELSE collection

\* ------------------------------------------------------------------ Init
Init ==
    /\ collection = [c \in {} |-> NoChain]
    /\ nextId = 1
    /\ pc = [p \in Procs |-> "idle"]
    /\ chain = [p \in Procs |-> NoChain]
    /\ chain_id = [p \in Procs |-> 0]
    /\ fetched = [p \in Procs |-> NoChain]
    /\ message = [p \in Procs |-> ""]
    /\ response = Response("none", "none", 0)
    /\ holders = [c \in Ids |-> {}]
    /\ episode = [id |-> 0, messages |-> <<>>, completed |-> FALSE, keys |-> {}]

Finish(p) ==
    /\ pc' = [pc EXCEPT ![p] = "idle"]
    /\ chain' = [chain EXCEPT ![p] = NoChain]
    /\ chain_id' = [chain_id EXCEPT ![p] = 0]
    /\ fetched' = [fetched EXCEPT ![p] = NoChain]
    /\ message' = [message EXCEPT ![p] = ""]

\* ------------------------------------------------- GET /assign/{condition}
\* line 73: chain["busy"] = True
ClaimedChain(doc) == [doc EXCEPT !.busy = TRUE]

\* lines 69-73: the aggregate and the change to the fetched document.
\* list(...)[0] raises IndexError on an empty result, which the framework
\* turns into a 500 response; `return 404` is not reached.
assign_to_chain(p, condition) ==
    /\ pc[p] = "idle"
    /\ IF sample_chain_to_write(condition) = {}
       THEN /\ response' = Response("assign", "ServiceFailure", 0)
            /\ UNCHANGED <<collection, nextId, locals, holders>>
       ELSE \E c \in sample_chain_to_write(condition) :
            /\ pc' = [pc EXCEPT ![p] = "assign_update"]
            /\ chain' = [chain EXCEPT ![p] = ClaimedChain(collection[c])]
            /\ chain_id' = [chain_id EXCEPT ![p] = c]
            /\ fetched' = [fetched EXCEPT ![p] = collection[c]]
            /\ UNCHANGED <<collection, nextId, message, response, holders>>

\* lines 74-77: write the whole document back, return it
assign_update(p) ==
    /\ pc[p] = "assign_update"
    /\ collection' = update_one(chain_id[p], chain[p])
    /\ response' = Response("assign", "chain", chain_id[p])
    /\ holders' = [holders EXCEPT ![chain_id[p]] = @ \cup {p}]
    /\ Finish(p)
    /\ UNCHANGED nextId

\* ----------------------------------------- GET /assign/no-busy/{condition}
\* a no-busy handler that marks the returned chain busy, as /assign does
assign_to_chain_no_busy_MarksBusy(p, condition) ==
    /\ pc[p] = "idle"
    /\ IF sample_chain_to_read(condition) = {}
       THEN /\ response' = Response("assign_no_busy", "ServiceFailure", 0)
            /\ UNCHANGED collection
       ELSE \E c \in sample_chain_to_read(condition) :
            /\ response' = Response("assign_no_busy", "chain", c)
            /\ collection' = update_one(c, ClaimedChain(collection[c]))
    /\ UNCHANGED <<nextId, locals, holders>>

\* lines 86-91: the aggregate; nothing is written
assign_to_chain_no_busy(p, condition) ==
    /\ pc[p] = "idle"
    /\ IF sample_chain_to_read(condition) = {}
       THEN response' = Response("assign_no_busy", "ServiceFailure", 0)
       ELSE \E c \in sample_chain_to_read(condition) :
                response' = Response("assign_no_busy", "chain", c)
    /\ UNCHANGED <<collection, nextId, locals, holders>>

\* ------------------------------------------------- GET /chain/{chain_id}
get_chain_by_id(p, id) ==
    /\ pc[p] = "idle"
    /\ response' = IF id \in DOMAIN collection
                   THEN Response("get", "chain", 0)
                   ELSE Response("get", "404", 0)
    /\ UNCHANGED <<collection, nextId, locals, holders>>

\* ------------------------------------------------- POST /free/{chain_id}
\* lines 113-116: find_one; the fetched document is not used after the check
free_chain(p, id) ==
    /\ pc[p] = "idle"
    /\ IF id \notin DOMAIN collection
       THEN /\ response' = Response("free", "404", 0)
            /\ UNCHANGED locals
       ELSE /\ pc' = [pc EXCEPT ![p] = "free_update"]
            /\ chain_id' = [chain_id EXCEPT ![p] = id]
            /\ UNCHANGED <<chain, fetched, message, response>>
    /\ UNCHANGED <<collection, nextId, holders>>

\* a release that leaves the busy flag as it is
FreedChain_KeepsBusy(doc) == doc

\* a release that counts a read, as a completion does
FreedChain_CountsRead(doc) == [doc EXCEPT !.busy = FALSE, !.reads = @ + 1]

\* line 118: {"$set": {"busy": False}} on the stored document
FreedChain(doc) == [doc EXCEPT !.busy = FALSE]

free_update(p) ==
    /\ pc[p] = "free_update"
    /\ collection' = IF chain_id[p] \in DOMAIN collection
                     THEN update_one(chain_id[p], FreedChain(collection[chain_id[p]]))
                     ELSE collection
    /\ response' = Response("free", "raw_result", 0)
    /\ holders' = IF chain_id[p] \in DOMAIN collection
                  THEN [holders EXCEPT ![chain_id[p]] = {}]
                  ELSE holders
    /\ Finish(p)
    /\ UNCHANGED nextId

\* --------------------------------------- POST /chain/complete/{chain_id}
\* a busy check that never refuses
NotInUse_Never(doc) == FALSE

\* line 138: if not chain["busy"]
NotInUse(doc) == ~doc.busy

\* a completion that forgets chain["writes"] += 1
CompletedChain_NoWriteCount(doc, msg) ==
    [doc EXCEPT !.messages = Append(@, msg),
                !.busy = FALSE,
                !.reads = @ + 1]

\* a completion that forgets chain["reads"] += 1
CompletedChain_NoReadCount(doc, msg) ==
    [doc EXCEPT !.messages = Append(@, msg),
                !.busy = FALSE,
                !.writes = @ + 1]

\* a completion that forgets chain["busy"] = False
CompletedChain_KeepsBusy(doc, msg) ==
    [doc EXCEPT !.messages = Append(@, msg),
                !.writes = @ + 1,
                !.reads = @ + 1]

\* lines 141-145: the handler's changes to the fetched document
CompletedChain(doc, msg) ==
    [doc EXCEPT !.messages = Append(@, msg),
                !.busy = FALSE,
                !.writes = @ + 1,
                !.reads = @ + 1]

\* lines 132-139: find_one and the two early returns
add_message_to_chain(p, id, msg) ==
    /\ pc[p] = "idle"
    /\ IF id \notin DOMAIN collection
       THEN /\ response' = Response("complete", "chain not found", 0)
            /\ UNCHANGED locals
       ELSE IF NotInUse(collection[id])
       THEN /\ response' = Response("complete", "chain not in use", 0)
            /\ UNCHANGED locals
       ELSE /\ pc' = [pc EXCEPT ![p] = "complete_update"]
            /\ chain' = [chain EXCEPT ![p] = CompletedChain(collection[id], msg)]
            /\ chain_id' = [chain_id EXCEPT ![p] = id]
            /\ fetched' = [fetched EXCEPT ![p] = collection[id]]
            /\ message' = [message EXCEPT ![p] = msg]
            /\ UNCHANGED response
    /\ UNCHANGED <<collection, nextId, holders>>

\* lines 146-148: write the whole document back
complete_update(p) ==
    /\ pc[p] = "complete_update"
    /\ collection' = update_one(chain_id[p], chain[p])
    /\ response' = Response("complete", "raw_result", 0)
    /\ holders' = IF chain_id[p] \in DOMAIN collection
                  THEN [holders EXCEPT ![chain_id[p]] = {}]
                  ELSE holders
    /\ Finish(p)
    /\ UNCHANGED nextId

\* ------------------------------------------- POST /chain/read/{chain_id}
\* line 159: chain["reads"] += 1
ReadChain(doc) == [doc EXCEPT !.reads = @ + 1]

\* lines 156-159: find_one; chain["reads"] on None raises TypeError
update_chain_read_count(p, id) ==
    /\ pc[p] = "idle"
    /\ IF id \notin DOMAIN collection
       THEN /\ response' = Response("read", "ServiceFailure", 0)
            /\ UNCHANGED locals
       ELSE /\ pc' = [pc EXCEPT ![p] = "read_update"]
            /\ chain' = [chain EXCEPT ![p] = ReadChain(collection[id])]
            /\ chain_id' = [chain_id EXCEPT ![p] = id]
            /\ fetched' = [fetched EXCEPT ![p] = collection[id]]
            /\ UNCHANGED <<message, response>>
    /\ UNCHANGED <<collection, nextId, holders>>

\* lines 160-162: write the whole document back
read_update(p) ==
    /\ pc[p] = "read_update"
    /\ collection' = update_one(chain_id[p], chain[p])
    /\ response' = Response("read", "raw_result", 0)
    /\ Finish(p)
    /\ UNCHANGED <<nextId, holders>>

\* ------------------------------------------------------ DELETE /demolish
delete_all_chains(p) ==
    /\ pc[p] = "idle"
    /\ collection' = [c \in {} |-> NoChain]
    /\ response' = Response("demolish", "raw_result", 0)
    /\ holders' = [c \in Ids |-> {}]
    /\ UNCHANGED <<nextId, locals>>

\* ------------------------------------------------------------ POST /setup
\* a setup that inserts one document per condition, whatever n is
to_insert_OnePerCondition(conditions, n) ==
    [i \in 1..(IF n > 0 THEN Len(conditions) ELSE 0) |-> NewChain(conditions[i])]

\* lines 184-195: one document per condition and per chain of that condition
to_insert(conditions, n) ==
    [i \in 1..(Len(conditions) * n) |-> NewChain(conditions[((i - 1) \div n) + 1])]

\* lines 197-202: insert_many assigns fresh ObjectIds; an empty list raises
set_up_chains(p, conditions, n) ==
    /\ pc[p] = "idle"
    /\ nextId + Len(to_insert(conditions, n)) <= MaxChains + 1
    /\ IF Len(to_insert(conditions, n)) = 0
       THEN /\ response' = Response("setup", "ServiceFailure", 0)
            /\ UNCHANGED <<collection, nextId>>
       ELSE /\ collection' =
                [c \in DOMAIN collection \cup
                       (nextId..(nextId + Len(to_insert(conditions, n)) - 1)) |->
                    IF c \in DOMAIN collection
                    THEN collection[c]
                    ELSE to_insert(conditions, n)[c - nextId + 1]]
            /\ nextId' = nextId + Len(to_insert(conditions, n))
            /\ response' = Response("setup", "inserted_ids", 0)
    /\ UNCHANGED <<locals, holders>>

\* ------------------------------------------------------------------ Next
\* the counters are capped: a complete request that would count (lines
\* 144-145) and a read request that would count (line 159) are taken only
\* below the cap
CompleteBelow(id, cap) ==
    (id \in DOMAIN collection /\ ~NotInUse(collection[id])) =>
        (collection[id].writes < cap /\ collection[id].reads < cap)

ReadBelow(id, cap) ==
    id \in DOMAIN collection => collection[id].reads < cap

\* requests of any kind, served concurrently; no client works in episodes
Next ==
    \E p \in Procs :
        \/ \E k \in Keys : assign_to_chain(p, k) /\ UNCHANGED episode
        \/ assign_update(p) /\ UNCHANGED episode
        \/ \E k \in Keys : assign_to_chain_no_busy(p, k) /\ UNCHANGED episode
        \/ \E id \in Ids : get_chain_by_id(p, id) /\ UNCHANGED episode
        \/ \E id \in Ids : free_chain(p, id) /\ UNCHANGED episode
        \/ free_update(p) /\ UNCHANGED episode
        \/ \E id \in Ids, m \in Messages :
               /\ CompleteBelow(id, MaxCount)
               /\ add_message_to_chain(p, id, m)
               /\ UNCHANGED episode
        \/ complete_update(p) /\ UNCHANGED episode
        \/ \E id \in Ids :
               /\ ReadBelow(id, MaxCount)
               /\ update_chain_read_count(p, id)
               /\ UNCHANGED episode
        \/ read_update(p) /\ UNCHANGED episode
        \/ delete_all_chains(p) /\ UNCHANGED episode
        \/ \E cs \in SetupConditions, n \in 0..MaxPerCondition :
               set_up_chains(p, cs, n) /\ UNCHANGED episode

Spec == Init /\ [][Next]_vars

\* ------------------------------------------- requests served one at a time
\* no request is between two of its store calls
AllIdle == \A q \in Procs : pc[q] = "idle"

\* every kind of request that selects a chain or changes the counters, each
\* request served to its end before the next one starts
NextSerial ==
    \E p \in Procs :
        \/ \E cs \in EpisodeConditions, n \in 0..MaxPerCondition :
               AllIdle /\ set_up_chains(p, cs, n) /\ UNCHANGED episode
        \/ \E k \in EpisodeKeys :
               AllIdle /\ assign_to_chain(p, k) /\ UNCHANGED episode
        \/ assign_update(p) /\ UNCHANGED episode
        \/ \E k \in EpisodeKeys :
               AllIdle /\ assign_to_chain_no_busy(p, k) /\ UNCHANGED episode
        \/ \E id \in Ids, m \in Messages :
               /\ AllIdle
               /\ CompleteBelow(id, MaxEpisodeCount)
               /\ add_message_to_chain(p, id, m)
               /\ UNCHANGED episode
        \/ complete_update(p) /\ UNCHANGED episode
        \/ \E id \in Ids :
               /\ AllIdle
               /\ ReadBelow(id, MaxEpisodeCount)
               /\ update_chain_read_count(p, id)
               /\ UNCHANGED episode
        \/ read_update(p) /\ UNCHANGED episode

SpecSerial == Init /\ [][NextSerial]_vars

\* ------------------------------------------------- claim-complete episodes
\* the client holds no chain: /assign has returned none yet, or the one it
\* returned last has been completed
EpisodeOver == episode.id = 0 \/ episode.completed

\* every stored document is as /setup inserted it
FreshPool == \A c \in DOMAIN collection : collection[c] = NewChain(collection[c].condition)

\* the client has asked /assign for key k
Asked(k) == [episode EXCEPT !.keys = @ \cup {k}]

\* /assign has returned chain[p] (line 77)
Claimed(p) ==
    [episode EXCEPT !.id = chain_id[p],
                    !.messages = chain[p].messages,
                    !.completed = FALSE]

\* /chain/complete has written the completed document (line 146)
Completed(p) == [episode EXCEPT !.completed = (chain_id[p] = episode.id)]

\* the pool is set up first; then one client at a time claims a chain, when
\* the chain claimed before has been completed, and completes
NextEpisodes ==
    \E p \in Procs :
        \/ \E cs \in EpisodeConditions, n \in 0..MaxPerCondition :
               /\ AllIdle
               /\ FreshPool
               /\ set_up_chains(p, cs, n)
               /\ UNCHANGED episode
        \/ \E k \in EpisodeKeys :
               /\ AllIdle
               /\ EpisodeOver
               /\ assign_to_chain(p, k)
               /\ episode' = Asked(k)
        \/ assign_update(p) /\ episode' = Claimed(p)
        \/ \E id \in Ids, m \in Messages :
               /\ AllIdle
               /\ CompleteBelow(id, MaxEpisodeCount)
               /\ add_message_to_chain(p, id, m)
               /\ UNCHANGED episode
        \/ complete_update(p) /\ episode' = Completed(p)

SpecEpisodes == Init /\ [][NextEpisodes]_vars

\* ================================================================ claims
IsPrefix(s, t) == Len(s) <= Len(t) /\ \A i \in 1..Len(s) : s[i] = t[i]

\* request slot p returns from the update step of the handler whose pc is at
UpdateStep(p, at) == pc[p] = at /\ pc'[p] = "idle"

\* C1: a chain is never handed out by /assign to two requests without a
\* complete or free update of that chain in between; with one eligible chain
\* and two concurrent /assign requests only one of them is given the chain.
C1_ExclusiveClaim ==
    \A c \in Ids : Cardinality(holders[c]) <= 1

\* C2: in every reachable state every stored chain has len(messages) = writes.
C2_MessagesMatchWrites ==
    \A c \in DOMAIN collection :
        Len(collection[c].messages) = collection[c].writes

\* a chain was completed while another request still holds the document it
\* fetched before the completion
C2_Witness ==
    \E c \in DOMAIN collection, p \in Procs :
        /\ collection[c].writes = 1
        /\ Len(collection[c].messages) = 1
        /\ pc[p] \in {"assign_update", "complete_update", "read_update"}
        /\ chain_id[p] = c
        /\ fetched[p].writes = 0

\* C3: no step lowers the writes counter or the reads counter of a chain that
\* stays in the collection.
C3_CountersMonotone ==
    [][\A c \in DOMAIN collection \cap DOMAIN collection' :
           /\ collection'[c].writes >= collection[c].writes
           /\ collection'[c].reads >= collection[c].reads]_vars

\* C4: at every step the old messages of a chain are a prefix of the new ones,
\* and only the update of a complete request lengthens them, by one element.
C4_MessagesAppendOnly ==
    [][\A c \in DOMAIN collection \cap DOMAIN collection' :
           /\ IsPrefix(collection[c].messages, collection'[c].messages)
           /\ collection'[c].messages # collection[c].messages =>
                 /\ Len(collection'[c].messages) = Len(collection[c].messages) + 1
                 /\ \E p \in Procs :
                        UpdateStep(p, "complete_update") /\ chain_id[p] = c]_vars

\* C5: a busy chain becomes free only by the update of a complete or a free
\* request on that chain, and /assign never selects a busy chain.
C5_BusyUntilCompleteOrRelease ==
    [][/\ \A c \in DOMAIN collection \cap DOMAIN collection' :
              (collection[c].busy /\ ~collection'[c].busy) =>
                  \E p \in Procs :
                      /\ chain_id[p] = c
                      /\ UpdateStep(p, "complete_update") \/ UpdateStep(p, "free_update")
       /\ \A p \in Procs :
              (pc[p] = "idle" /\ pc'[p] = "assign_update") =>
                  ~collection[chain_id'[p]].busy]_vars

\* C6: complete on a stored chain that is not busy answers "chain not in use",
\* ends the request and leaves the whole collection as it was.
C6_CompleteOnFreeChain ==
    [][\A p \in Procs, id \in Ids, m \in Messages :
           (/\ id \in DOMAIN collection
            /\ ~collection[id].busy
            /\ add_message_to_chain(p, id, m)) =>
               /\ response' = Response("complete", "chain not in use", 0)
               /\ collection' = collection
               /\ pc'[p] = "idle"]_vars

\* a complete request has just been refused on a pool that holds a free chain
\* with a message and a busy chain
C6_Witness ==
    /\ response = Response("complete", "chain not in use", 0)
    /\ \E c \in DOMAIN collection : ~collection[c].busy /\ collection[c].writes = 1
    /\ \E c \in DOMAIN collection : collection[c].busy

C8_PeekChangesNothing ==
    [][\A p \in Procs, k \in Keys :
           assign_to_chain_no_busy(p, k) =>
               /\ collection' = collection
               /\ pc' = pc]_vars

\* /assign/no-busy has just returned a chain of a pool whose chains are free
C8_Witness ==
    /\ response.op = "assign_no_busy"
    /\ response.outcome = "chain"
    /\ Cardinality(DOMAIN collection) = 2
    /\ \A c \in DOMAIN collection : ~collection[c].busy
    /\ collection[response.id].writes = 1

\* C9: /assign and /assign/no-busy with no chain passing the filters answer
\* with the NoEligibleChain outcome and change no chain.
C9_NoEligibleChainOutcome ==
    [][\A p \in Procs, k \in Keys :
           /\ (sample_chain_to_write(k) = {} /\ assign_to_chain(p, k)) =>
                  /\ response'.outcome = "NoEligibleChain"
                  /\ collection' = collection
           /\ (sample_chain_to_read(k) = {} /\ assign_to_chain_no_busy(p, k)) =>
                  /\ response'.outcome = "NoEligibleChain"
                  /\ collection' = collection]_vars

\* C10: the update of a read request adds 1 to the stored reads counter and
\* leaves the stored state, messages and writes of the chain as they are at
\* the time of the update.
C10_RecordReadFrame ==
    [][\A p \in Procs :
           (UpdateStep(p, "read_update") /\ chain_id[p] \in DOMAIN collection) =>
               collection' = [collection EXCEPT ![chain_id[p]].reads = @ + 1]]_vars

\* C11: the update of a free request on a stored chain sets it free, leaves
\* its messages, writes and condition as they are, whether it was busy or
\* not, and changes no other chain.
C11_ReleaseFrame ==
    [][\A p \in Procs :
           (UpdateStep(p, "free_update") /\ chain_id[p] \in DOMAIN collection) =>
               /\ DOMAIN collection' = DOMAIN collection
               /\ collection'[chain_id[p]].busy = FALSE
               /\ collection'[chain_id[p]].messages = collection[chain_id[p]].messages
               /\ collection'[chain_id[p]].writes = collection[chain_id[p]].writes
               /\ collection'[chain_id[p]].condition = collection[chain_id[p]].condition
               /\ \A d \in DOMAIN collection \ {chain_id[p]} :
                      collection'[d] = collection[d]
               /\ response' = Response("free", "raw_result", 0)]_vars

\* a free request has just released a chain that holds a message, next to a
\* busy chain
C11_Witness ==
    /\ response = Response("free", "raw_result", 0)
    /\ \E c \in DOMAIN collection :
           /\ ~collection[c].busy
           /\ collection[c].writes = 1
           /\ Len(collection[c].messages) = 1
    /\ \E d \in DOMAIN collection : collection[d].busy

\* C12 as claimed: the update of a free request on a stored chain adds 1 to
\* its reads counter.
C12_ReleaseCountsRead ==
    [][\A p \in Procs :
           (UpdateStep(p, "free_update") /\ chain_id[p] \in DOMAIN collection) =>
               collection'[chain_id[p]].reads = collection[chain_id[p]].reads + 1]_vars

\* C12 as amended: the update of a free request on a stored chain leaves its
\* reads counter as it is.
C12_ReleaseKeepsReads ==
    [][\A p \in Procs :
           (UpdateStep(p, "free_update") /\ chain_id[p] \in DOMAIN collection) =>
               collection'[chain_id[p]].reads = collection[chain_id[p]].reads]_vars

\* a free request has just released the only chain, which was never read or
\* completed
C12_Witness ==
    /\ response = Response("free", "raw_result", 0)
    /\ Cardinality(DOMAIN collection) = 1
    /\ \A c \in DOMAIN collection :
           ~collection[c].busy /\ collection[c].reads = 0 /\ collection[c].writes = 0
    /\ \A p \in Procs : pc[p] = "idle"

\* C13: get, complete, free and read on an id that names no stored chain
\* answer with a not-found outcome and leave the collection as it is.
C13_NotFoundOutcome ==
    [][\A p \in Procs, id \in Ids :
           id \notin DOMAIN collection =>
               /\ get_chain_by_id(p, id) =>
                      response'.outcome = "404" /\ collection' = collection
               /\ free_chain(p, id) =>
                      response'.outcome = "404" /\ collection' = collection
               /\ (\E m \in Messages : add_message_to_chain(p, id, m)) =>
                      response'.outcome = "chain not found" /\ collection' = collection
               /\ update_chain_read_count(p, id) =>
                      /\ response'.outcome \in {"404", "chain not found"}
                      /\ collection' = collection]_vars

\* C14: in claim-complete episodes, once the chain /assign returned last has
\* been completed and it is the only stored chain, it is free again and the
\* next /assign with a key that is a prefix of its label selects it, and
\* returns it with one message more than the /assign before returned.
C14_ClaimAgain ==
    [][\A p \in Procs :
           (episode.completed /\ DOMAIN collection = {episode.id}) =>
               /\ \A k \in EpisodeKeys :
                      (/\ IsPrefix(k, collection[episode.id].condition)
                       /\ assign_to_chain(p, k)) =>
                          /\ ~collection[episode.id].busy
                          /\ pc'[p] = "assign_update"
                          /\ chain_id'[p] = episode.id
               /\ UpdateStep(p, "assign_update") =>
                      /\ response' = Response("assign", "chain", episode.id)
                      /\ collection'[episode.id].busy
                      /\ Len(chain[p].messages) = Len(episode.messages) + 1
                      /\ collection'[episode.id].messages = chain[p].messages]_vars

\* the second /assign on a pool of one chain, set up fresh, claimed once and
\* completed once, is about to return the chain with one message
C14_Witness ==
    \E p \in Procs :
        /\ pc[p] = "assign_update"
        /\ episode.completed
        /\ DOMAIN collection = {episode.id}
        /\ chain_id[p] = episode.id
        /\ episode.messages = <<>>
        /\ Len(chain[p].messages) = 1

\* the collection stays empty over every step that is not a setup
StaysEmpty ==
    (DOMAIN collection = {} /\ response'.op # "setup") => DOMAIN collection' = {}

\* C15: demolish leaves the collection empty, busy chains included; it stays
\* empty until the next setup, whatever update arrives late; and /assign
\* right after the demolish answers with the NoEligibleChain outcome.
C15_ResetLeavesPoolEmpty ==
    [][/\ \A p \in Procs : delete_all_chains(p) => DOMAIN collection' = {}
       /\ StaysEmpty
       /\ \A p \in Procs, k \in Keys :
              (response.op = "demolish" /\ assign_to_chain(p, k)) =>
                  /\ response'.outcome = "NoEligibleChain"
                  /\ DOMAIN collection' = {}]_vars

\* the part of C15 that is about the stored chains only
C15_PoolPart ==
    [][/\ \A p \in Procs : delete_all_chains(p) => DOMAIN collection' = {}
       /\ StaysEmpty]_vars

\* the labels a setup body lists
Listed(conditions) == {conditions[i] : i \in 1..Len(conditions)}

\* C16: a setup with n > 0 adds exactly n fresh chains for each listed label
\* and none for the others, under ids that were not in use, and leaves every
\* stored chain as it is.
C16_SetupAddsChains ==
    [][\A p \in Procs, cs \in SetupConditions, n \in 1..MaxPerCondition :
           set_up_chains(p, cs, n) =>
               LET added == DOMAIN collection' \ DOMAIN collection IN
               /\ \A d \in DOMAIN collection :
                      d \in DOMAIN collection' /\ collection'[d] = collection[d]
               /\ Cardinality(added) = n * Cardinality(Listed(cs))
               /\ \A l \in Listed(cs) :
                      Cardinality({c \in added : collection'[c].condition = l}) = n
               /\ \A c \in added :
                      /\ collection'[c].condition \in Listed(cs)
                      /\ collection'[c].busy = FALSE
                      /\ collection'[c].writes = 0
                      /\ collection'[c].reads = 0
                      /\ collection'[c].messages = <<>>
                      /\ c >= nextId]_vars

\* a second setup has just added a fresh chain next to a completed one
C16_Witness ==
    /\ response = Response("setup", "inserted_ids", 0)
    /\ DOMAIN collection = {1, 2}
    /\ collection[1].writes = 1
    /\ collection[1].messages # <<>>
    /\ collection[2] = NewChain(LabelA1)

\* the stored chains that are not busy and whose label M matches with key k
Eligible(M(_, _), k) ==
    {c \in DOMAIN collection : M(k, collection[c].condition) /\ ~collection[c].busy}

\* the chains of S whose (writes, reads) pair is lexicographically least in S
Least(S) ==
    {c \in S : \A d \in S :
        \/ collection[c].writes < collection[d].writes
        \/ /\ collection[c].writes = collection[d].writes
           /\ collection[c].reads <= collection[d].reads}

Written(S) == {c \in S : collection[c].writes > 0}

\* C17: /assign and /assign/no-busy with key k return only a chain whose
\* label has k as a prefix.
C17_PrefixOnly ==
    [][\A p \in Procs, k \in EpisodeKeys :
           /\ (assign_to_chain(p, k) /\ pc'[p] = "assign_update") =>
                  IsPrefix(k, collection[chain_id'[p]].condition)
           /\ (assign_to_chain_no_busy(p, k) /\ response'.outcome = "chain") =>
                  IsPrefix(k, collection[response'.id].condition)]_vars

\* with label matching M: the chain /assign selects for key k is one of the
\* least loaded eligible chains, the chain /assign/no-busy selects is one of
\* the least loaded eligible chains with writes > 0, and every such chain is
\* one the pipeline can return
SelectsLeast(M(_, _)) ==
    \A p \in Procs, k \in EpisodeKeys :
        /\ (assign_to_chain(p, k) /\ pc'[p] = "assign_update") =>
               chain_id'[p] \in Least(Eligible(M, k))
        /\ (assign_to_chain_no_busy(p, k) /\ response'.outcome = "chain") =>
               response'.id \in Least(Written(Eligible(M, k)))
        /\ Least(Eligible(M, k)) \subseteq sample_chain_to_write(k)
        /\ Least(Written(Eligible(M, k))) \subseteq sample_chain_to_read(k)

\* C18: the chain /assign selects is free, has the key as a prefix of its
\* label and has the least (writes, reads) pair among the free chains with
\* that prefix; /assign/no-busy the same among those with writes > 0; each
\* chain that ties at the least pair can be the one selected.
C18_SelectsMinimalMatching == [][SelectsLeast(IsPrefix)]_vars

\* the same, with the match of the $regex filter in the place of the prefix
C18_CodeFilterPart == [][SelectsLeast(RegexMatch)]_vars

\* C19: every complete request that returns success is counted: its update
\* raises the stored writes counter by 1 and adds its message to the stored
\* messages, so that two complete requests on one claim cannot both succeed.
C19_CompleteCounted ==
    [][\A p \in Procs :
           (UpdateStep(p, "complete_update") /\ chain_id[p] \in DOMAIN collection) =>
               /\ collection'[chain_id[p]].writes = collection[chain_id[p]].writes + 1
               /\ collection'[chain_id[p]].messages =
                      Append(collection[chain_id[p]].messages, message[p])]_vars

\* C20: in claim-complete episodes on a pool set up at the start, as long as
\* every /assign asked for the same key k, the writes counters of any two
\* chains that match k differ by at most 1.  The chains the $regex filter
\* matches include every chain whose label has k as a prefix.
C20_Balanced ==
    \A k \in EpisodeKeys :
        episode.keys \subseteq {k} =>
            \A c, d \in DOMAIN collection :
                (/\ RegexMatch(k, collection[c].condition)
                 /\ RegexMatch(k, collection[d].condition)) =>
                    collection[c].writes <= collection[d].writes + 1

\* two chains with the asked key as a prefix after three episodes: one
\* completed twice, the other once
C20_Witness ==
    \E k \in EpisodeKeys, c, d \in DOMAIN collection :
        /\ episode.keys = {k}
        /\ IsPrefix(k, collection[c].condition)
        /\ IsPrefix(k, collection[d].condition)
        /\ collection[c].writes = 2
        /\ collection[d].writes = 1

====
